---- MODULE Spec2Model ----
(***************************************************************************)
(* Model of the list presenter hook (useListPresenter), of the form       *)
(* presenter hook (useFormPresenter), of the dialogs of useBasePage they   *)
(* rely on, and of the load and submit handlers of CollectionFormPage.     *)
(*                                                                         *)
(* Specifications: Spec and SpecDeep follow a list page; SpecRoute a list  *)
(* page that is navigated and unmounted; SpecSearch a list page whose only *)
(* input is the search box; SpecWhere applies buildWhere on its own;       *)
(* SpecForm follows a form page; SpecCancel a form page with handleCancel  *)
(* and the confirm dialogs; SpecValidate applies validateForm on its own;  *)
(* SpecPage follows the page-level load and submit.                        *)
(*                                                                         *)
(* React semantics that the hook depends on are modelled explicitly:       *)
(*   - `state` is the latest value of the useState cell (functional        *)
(*     updaters are applied to it in call order);                          *)
(*   - `rendered` is the value of that cell seen by the last render, which *)
(*     is what every useCallback closure of that render reads as `state`;  *)
(*   - every setState call schedules a render (the updater always builds a *)
(*     new object); Render commits it and then runs the two effects.       *)
(* An asynchronous function is split at its awaits: each piece between two *)
(* awaits is one action.                                                   *)
(***************************************************************************)
EXTENDS Integers, Sequences, FiniteSets, Bags, TLC

\* ---------------------------------------------------------------- bounds
MaxIds == 3          \* records the server starts with
MaxRenders == 2      \* renders (each runs the effects) in one behaviour
MaxLoads == 1        \* loadData invocations outside the effects in one behaviour
DeepLoads == 2       \* the same in one behaviour of SpecDeep
MaxDels == 1         \* handleDelete / handleBulkDelete invocations
MaxFails == 1        \* use-case calls that reject in one behaviour
MaxCalls == 2        \* calls the page makes on the presenter in one behaviour
PageLimit == 2       \* page size the page may configure through setStatePartial
MaxOtherIds == 2     \* records the server holds in the collection navigated to
MaxFormRenders == 3  \* renders of the form page in one behaviour
MaxFormCalls == 2    \* calls the form page makes on the presenter in one behaviour
MaxFormFails == 1    \* use-case calls of the form hook that reject in one behaviour
MaxLength == 2       \* maxLength of the String field of the form's schema
MaxViews == 9        \* max of the Number field of the form's schema
MaxDialogs == 3      \* showConfirmDialog calls in one behaviour
MaxClicks == 2       \* clicks on the buttons of one dialog

\* ------------------------------------------------------ program constants
DefaultLimit == 20
DefaultSortCreated == -1

Ids == 1..MaxIds

\* the two collections of the route /collections/:collection that are visited
Collections == { "A", "B" }

\* the records of collection "B"; those of Ids are in collection "A"
OtherIds == (MaxIds + 1)..(MaxIds + MaxOtherIds)

AllIds == Ids \cup OtherIds

CollectionOf(id) == IF id \in Ids THEN "A" ELSE "B"

\* ------------------------------------------------------------- strings
\* A string is a sequence of one-character strings.
IsSpace(c) == c = " "

\* search?.trim() is falsy: nothing is left once whitespace is removed
IsBlank(s) == \A i \in DOMAIN s : IsSpace(s[i])

\* case-insensitive substring test of {$regex: pat, $options: "i"}
Lower(c) == IF c = "A" THEN "a" ELSE IF c = "B" THEN "b" ELSE c

Contains(text, pat) ==
    \E k \in 0..(Len(text) - Len(pat)) :
        \A j \in 1..Len(pat) : Lower(text[k + j]) = Lower(pat[j])

\* ------------------------------------------------------- objects
\* A JavaScript object is a function from its keys.
EmptyObject == << >>

\* { ...obj, [k]: v }
Put(obj, k, v) == [ x \in DOMAIN obj \cup { k } |-> IF x = k THEN v ELSE obj[x] ]

\* { ...a, ...b }
Spread(a, b) == [ x \in DOMAIN a \cup DOMAIN b |-> IF x \in DOMAIN b THEN b[x] ELSE a[x] ]

\* ------------------------------------------------------- external data
\* fields of the context.schemas entry of a collection, in Object.entries order
SchemaFields ==
    << [ name |-> "title", type |-> "String" ], [ name |-> "views", type |-> "Number" ] >>

\* context.schemas?.find(s => s.collection === getCollectionName())?.fields || {}
FieldsOf(collection) == SchemaFields

\* the records of the collection, by id
Title(id) == IF id = 1 THEN <<"a">> ELSE IF id = 2 THEN <<"A", "b">> ELSE <<"b">>

SearchValues == { <<"a">>, <<"b">> }

SelectChoices == { <<2>>, <<3, 1, 2>> }

\* ------------------------------------------------------- sequences
RECURSIVE SortedSeq(_, _)
SortedSeq(S, dir) ==
    IF S = {} THEN <<>>
    ELSE LET x == IF dir = -1
                  THEN CHOOSE y \in S : \A z \in S : z <= y
                  ELSE CHOOSE y \in S : \A z \in S : y <= z
         IN <<x>> \o SortedSeq(S \ {x}, dir)

Slice(s, skip, limit) ==
    IF skip >= Len(s) THEN <<>>
    ELSE SubSeq(s, skip + 1, IF skip + limit > Len(s) THEN Len(s) ELSE skip + limit)

Range(s) == { s[i] : i \in DOMAIN s }

\* ------------------------------------------------------- use cases
\* a record has the one field title; a key of where other than $or is an
\* equality condition on the field of that name
MatchesWhere(id, where) ==
    /\ "$or" \in DOMAIN where =>
          \E i \in DOMAIN where["$or"] : Contains(Title(id), where["$or"][i].regex)
    /\ \A k \in DOMAIN where \ { "$or" } : k = "title" /\ where[k] = Title(id)

FindExecute(data, query) ==
    Slice(SortedSeq({ id \in data : MatchesWhere(id, query.where) }, query.sort),
          query.skip, query.limit)

CountExecute(data, where) ==
    Cardinality({ id \in data : MatchesWhere(id, where) })

\* ------------------------------------------------------- state
VARIABLES
    state,          \* the useState cell of the hook
    rendered,       \* the value of the cell captured by the closures of the last render
    pendingRender,  \* a setState call has been made since the last render
    mounted,        \* the first render has been committed and its effects have run
    loads,          \* the loadData invocations that have not returned (a bag)
    renders,        \* renders committed so far
    otherLoads,     \* loadData invocations started outside the effects so far
    timer,          \* searchTimeoutRef: the pending debounce timer and its closure
    dels,           \* every handleDelete / handleBulkDelete invocation so far
    db,             \* ids the server holds
    fails,          \* rejected use-case calls so far
    calls,          \* calls the page has made on the presenter so far
    loadCap,        \* loadData invocations outside the effects this behaviour is followed for
    toast,          \* severity of the last toast shown
    params,         \* useParams() of the list page: the route parameters
    alive           \* the list page has not been unmounted

\* inputs and result of a pure function of the hooks, applied on its own
VARIABLES args, result

pureVars == <<args, result>>

\* the form presenter hook (useFormPresenter) and what it talks to
VARIABLES
    form,           \* the useState cell of the form hook
    formView,       \* the state and route parameters seen by the closures of its last render
    formParams,     \* useParams() of the form page
    formPending,    \* a setState call or a route change has happened since the last render
    formMounted,    \* the first render of the form page has been committed
    gets,           \* the loadData invocations of the form hook that have not returned (a bag)
    submits,        \* every handleSubmit invocation that reached the upsert call
    navigations,    \* the paths navigate() has been called with
    formToast,      \* the last toast of the form page
    store,          \* the objects the server holds for the form's collection, by id
    formRenders,    \* renders of the form page so far
    formCalls,      \* calls the form page has made on the presenter so far
    formFails,      \* use-case calls of the form hook that rejected so far
    dialogs         \* every showConfirmDialog call so far, with its dialog and its promise

formVars == <<form, formView, formParams, formPending, formMounted, gets, submits,
              navigations, formToast, store, formRenders, formCalls, formFails, dialogs>>

listVars == <<state, rendered, pendingRender, mounted, loads, renders, otherLoads, timer,
              dels, db, fails, calls, loadCap, toast, params, alive>>

vars == <<listVars, formVars, pureVars>>

\* the records the server holds in a collection
Data(collection) == { id \in db : CollectionOf(id) = collection }

InitialParams == [ collection |-> "A" ]

\* what the useCallback closures of a render see: the state of that render
\* and, through getCollectionName, its route parameters
Closure(st, p) ==
    [ k \in DOMAIN st \cup { "collection" } |->
        IF k = "collection" THEN p.collection ELSE st[k] ]

\* a setState call: React drops the update of a component that is unmounted
SetState(next) == IF alive THEN next ELSE state

\* buildWhere not called / called on no search, no filters and no schema
NoArgs == [ search |-> << >>, filters |-> EmptyObject, fields |-> << >> ]

NoResult == [ done |-> FALSE, where |-> EmptyObject ]

InitialState ==
    [ loading  |-> TRUE,
      objects  |-> <<>>,
      selected |-> <<>>,
      count    |-> 0,
      current  |-> 1,
      limit    |-> DefaultLimit,
      search   |-> <<>>,
      filters  |-> EmptyObject,
      sort     |-> DefaultSortCreated ]

\* setState(prev => ({ ...prev, ...updates }))
SetStatePartial(prev, updates) ==
    [ k \in DOMAIN prev |-> IF k \in DOMAIN updates THEN updates[k] ELSE prev[k] ]

ResetKeepingSelected(prev) ==
    [ prev EXCEPT !.current = 1, !.objects = <<>> ]

\* reset: setState(prev => ({ ...prev, current: 1, objects: [], selected: [] }))
Reset(prev) ==
    [ prev EXCEPT !.current = 1, !.objects = <<>>, !.selected = <<>> ]

AllConditions(fields, search) ==
    [ i \in DOMAIN fields |-> [ field |-> fields[i].name, regex |-> search, options |-> "i" ] ]

\* Object.entries(fields).filter(([, p]) => p.type === "String")
\*       .map(([f]) => ({ [f]: { $regex: search, $options: "i" } }))
RECURSIVE StringConditions(_, _)
StringConditions(fields, search) ==
    IF fields = << >> THEN << >>
    ELSE (IF Head(fields).type = "String"
          THEN << [ field |-> Head(fields).name, regex |-> search, options |-> "i" ] >>
          ELSE << >>) \o StringConditions(Tail(fields), search)

BuildWhereSearchAlways(search, filters, fields) ==
    Spread(("$or" :> StringConditions(fields, search)), filters)

\* buildWhere of a render with these state.search and state.filters, for a
\* collection whose schema has these fields
BuildWhere(search, filters, fields) ==
    IF IsBlank(search)
    THEN Spread(EmptyObject, filters)
    ELSE Spread(("$or" :> StringConditions(fields, search)), filters)

\* the query loadData sends to the find use case, from the closure's state
BuildQuery(snap) ==
    [ where |-> BuildWhere(snap.search, snap.filters, FieldsOf(snap.collection)),
      limit |-> snap.limit,
      skip  |-> (snap.current - 1) * snap.limit,
      sort  |-> snap.sort ]

\* a loadData invocation that has run up to its first await
NewLoad(snap, origin, owner) ==
    [ origin |-> origin,
      owner  |-> owner,
      coll   |-> snap.collection,
      objs   |-> snap.objects,
      cur    |-> snap.current,
      query  |-> BuildQuery(snap),
      pc     |-> "find",
      found  |-> <<>>,
      result |-> "pending" ]

\* loadData, before the first await: setStatePartial({ loading: true })
LoadDataBegin(prev) == SetStatePartial(prev, [ loading |-> TRUE ])

\* loadData, after both awaits
LoadDataSuccess(prev, ld, count) ==
    SetStatePartial(prev, [ objects |-> ld.objs \o ld.found,
                            count   |-> count,
                            loading |-> FALSE ])

LoadDataCatchStuck(prev) == prev

LoadDataCatchClears(prev) == SetStatePartial(prev, [ loading |-> FALSE, objects |-> << >> ])

\* loadData, catch block before showError
LoadDataCatch(prev) == SetStatePartial(prev, [ loading |-> FALSE ])

\* ------------------------------------------------------- form: values
\* A value of a form field is tagged with its type and written as a
\* sequence of characters (the digits of a number); an absent key of an
\* object reads as undefined.
Str(s) == [ t |-> "String", v |-> s ]

Num(digits) == [ t |-> "Number", v |-> digits ]

DigitOf(c) ==
    CASE c = "0" -> 0 [] c = "1" -> 1 [] c = "2" -> 2 [] c = "3" -> 3 [] c = "4" -> 4
      [] c = "5" -> 5 [] c = "6" -> 6 [] c = "7" -> 7 [] c = "8" -> 8 [] c = "9" -> 9
      [] OTHER -> -1

\* the number a sequence of digits denotes
RECURSIVE DigitsValue(_)
DigitsValue(s) ==
    IF s = << >> THEN 0
    ELSE 10 * DigitsValue(SubSeq(s, 1, Len(s) - 1)) + DigitOf(s[Len(s)])

\* !value is false: the empty string, the number 0, false, null (a boolean
\* is held as the digit Number(value) gives, null as no digits)
Truthy(value) ==
    IF value.t = "String" THEN value.v # << >> ELSE DigitsValue(value.v) # 0

\* ------------------------------------------------------- form: external data
\* context.schemas entry of the form's collection: field name -> field config
FormSchema ==
    [ title |-> [ type |-> "String", required |-> TRUE, maxLength |-> MaxLength ],
      views |-> [ type |-> "Number", required |-> FALSE, min |-> 0, max |-> MaxViews ] ]

\* the id the route carries for an object that does not exist yet
NewId == "new"

\* the route of the collection list, /collections/<collection>, carries no id
NoId == ""

\* the ids of the objects the server holds at first, and those it hands out
StoredIds == { "1", "2" }

FreshIds == << "8", "9" >>

StoredObject(id) ==
    [ id    |-> Str(<< id >>),
      title |-> Str(<< "t", id >>),
      views |-> Num(<< id >>) ]

InitialStore == [ id \in StoredIds |-> StoredObject(id) ]

\* handleFieldChange arguments the page passes
FieldInputs ==
    { << "title", Str(<< >>) >>, << "title", Str(<< "t", "1" >>) >>,
      << "views", Str(<< "7" >>) >> }

\* ------------------------------------------------------- form: state
InitialFormState ==
    [ loading    |-> TRUE,
      object     |-> EmptyObject,
      change     |-> EmptyObject,
      advanced   |-> FALSE,
      dirty      |-> FALSE,
      submitting |-> FALSE ]

\* what the useCallback closures of a render of the form page see
FormClosure(st, p) ==
    [ k \in DOMAIN st \cup { "collection", "id" } |->
        IF k = "collection" THEN p.collection
        ELSE IF k = "id" THEN p.id ELSE st[k] ]

\* the form page as constructed for the route /collections/A/form/<id>
FormConstructed(id) ==
    /\ form = InitialFormState
    /\ formParams = [ collection |-> "A", id |-> id ]
    /\ formView = FormClosure(InitialFormState, [ collection |-> "A", id |-> id ])
    /\ formPending = TRUE
    /\ formMounted = FALSE
    /\ gets = EmptyBag
    /\ submits = << >>
    /\ navigations = << >>
    /\ formToast = "none"
    /\ store = InitialStore
    /\ formRenders = 0
    /\ formCalls = 0
    /\ formFails = 0
    /\ dialogs = << >>

\* the list presenter as constructed, followed for cap loadData invocations
\* outside the effects
ListConstructed(cap) ==
    /\ state = InitialState
    /\ rendered = Closure(InitialState, InitialParams)
    /\ pendingRender = TRUE
    /\ mounted = FALSE
    /\ loads = EmptyBag
    /\ renders = 0
    /\ otherLoads = 0
    /\ timer = [ pending |-> FALSE, snap |-> Closure(InitialState, InitialParams) ]
    /\ dels = <<>>
    /\ db = AllIds
    /\ fails = 0
    /\ calls = 0
    /\ loadCap = cap
    /\ toast = "none"
    /\ params = InitialParams
    /\ alive = TRUE

Init ==
    /\ ListConstructed(MaxLoads)
    /\ args = NoArgs
    /\ result = NoResult
    /\ FormConstructed(NewId)

\* the invocations in flight with one more / with ld replaced / without ld
Started(bag, ld) == bag (+) SetToBag({ ld })

Stepped(bag, ld, next) == (bag (-) SetToBag({ ld })) (+) SetToBag({ next })

Returned(bag, ld) == bag (-) SetToBag({ ld })

\* A render is committed and its effects run.  loadData is re-created by
\* every render (showError of useBasePage is a new function each time), so
\* both effects run after every render:
\*   effect 1: loadData();   effect 2: reset(); loadData()  (collection is set)
Render ==
    /\ alive
    /\ pendingRender
    /\ renders < MaxRenders
    /\ renders' = renders + 1
    /\ rendered' = Closure(state, params)
    /\ state' = LoadDataBegin(Reset(LoadDataBegin(state)))
    /\ loads' = Started(Started(loads, NewLoad(Closure(state, params), "effect", 0)), NewLoad(Closure(state, params), "effect", 0))
    /\ mounted' = TRUE
    /\ pendingRender' = TRUE
    /\ UNCHANGED <<otherLoads, timer, dels, db, fails, calls, loadCap, toast>>
    /\ UNCHANGED <<params, alive, formVars, pureVars>>

\* Calls of the page are made once the presenter is mounted, through the
\* closures of the last committed render.
CanCall ==
    /\ mounted
    /\ alive
    /\ calls < MaxCalls

\* `await loadData()` of a delete handler returns: the handler is finished
DelsAfterLoad(ld) ==
    IF ld.owner = 0 THEN dels
    ELSE [ dels EXCEPT ![ld.owner].pc = "done" ]

\* findObjectsUseCase.execute resolves; countObjectsUseCase.execute is called
FindResolve(ld) ==
    /\ ld.pc = "find"
    /\ loads' = Stepped(loads, ld, [ ld EXCEPT !.pc = "count",
                                               !.found = FindExecute(Data(ld.coll), ld.query) ])
    /\ UNCHANGED <<state, rendered, pendingRender, mounted, renders, otherLoads,
                   timer, dels, db, fails, calls, loadCap, toast>>
    /\ UNCHANGED <<params, alive, formVars, pureVars>>

\* what a use case may throw: an Error object, a string, null or undefined
ThrownValues == { "error", "string", "null", "undefined" }

\* showError(error) evaluates error.message unless error is a string, which
\* throws a TypeError for null and undefined before any dialog is opened
ShowErrorThrows(thrown) == thrown \in { "null", "undefined" }

\* the catch block of loadData after setStatePartial: `await showError(error)`
\* opens the dialog, or throws and loadData finishes with a rejection; the
\* delete handler awaiting that loadData catches the rejection and shows it
LoadCaught(ld, thrown, outcome) ==
    /\ loads' = Stepped(loads, ld,
                   [ ld EXCEPT !.pc = IF ShowErrorThrows(thrown) THEN "rejected" ELSE "error",
                               !.result = outcome ])
    /\ dels' = IF ShowErrorThrows(thrown) /\ ld.owner # 0
               THEN [ dels EXCEPT ![ld.owner].pc = "error" ]
               ELSE dels

\* findObjectsUseCase.execute rejects
FindReject(ld) ==
    /\ ld.pc = "find"
    /\ fails < MaxFails
    /\ fails' = fails + 1
    /\ state' = SetState(LoadDataCatch(state))
    /\ pendingRender' = alive
    /\ \E thrown \in ThrownValues : LoadCaught(ld, thrown, "findFailed")
    /\ UNCHANGED <<rendered, mounted, renders, otherLoads, timer, db, calls, loadCap, toast>>
    /\ UNCHANGED <<params, alive, formVars, pureVars>>

\* countObjectsUseCase.execute resolves
CountResolve(ld) ==
    /\ ld.pc = "count"
    /\ state' = SetState(LoadDataSuccess(state, ld, CountExecute(Data(ld.coll), ld.query.where)))
    /\ pendingRender' = alive
    /\ loads' = Returned(loads, ld)
    /\ dels' = DelsAfterLoad(ld)
    /\ UNCHANGED <<rendered, mounted, renders, otherLoads, timer, db, fails, calls, loadCap, toast>>
    /\ UNCHANGED <<params, alive, formVars, pureVars>>

\* countObjectsUseCase.execute rejects
CountReject(ld) ==
    /\ ld.pc = "count"
    /\ fails < MaxFails
    /\ fails' = fails + 1
    /\ state' = SetState(LoadDataCatch(state))
    /\ pendingRender' = alive
    /\ \E thrown \in ThrownValues : LoadCaught(ld, thrown, "countFailed")
    /\ UNCHANGED <<rendered, mounted, renders, otherLoads, timer, db, calls, loadCap, toast>>
    /\ UNCHANGED <<params, alive, formVars, pureVars>>

\* the error dialog of a failed load is acknowledged
LoadErrorAck(ld) ==
    /\ ld.pc = "error"
    /\ loads' = Returned(loads, ld)
    /\ dels' = DelsAfterLoad(ld)
    /\ UNCHANGED <<state, rendered, pendingRender, mounted, renders, otherLoads,
                   timer, db, fails, calls, loadCap, toast>>
    /\ UNCHANGED <<params, alive, formVars, pureVars>>

\* loadMore: if (!state.loading) { setStatePartial({current: state.current + 1}); loadData() }
\* the guard and the page number are read from the closure's state
LoadMoreAllowed(snap) == ~snap.loading

LoadMore ==
    /\ CanCall
    /\ otherLoads < loadCap
    /\ LoadMoreAllowed(rendered)
    /\ calls' = calls + 1
    /\ otherLoads' = otherLoads + 1
    /\ state' = SetState(LoadDataBegin(SetStatePartial(state, [ current |-> rendered.current + 1 ])))
    /\ loads' = Started(loads, NewLoad(rendered, "loadMore", 0))
    /\ pendingRender' = alive
    /\ UNCHANGED <<renders, rendered, mounted, timer, dels, db, fails, loadCap, toast>>
    /\ UNCHANGED <<params, alive, formVars, pureVars>>

\* loadMore while the closure's state.loading is true: nothing happens
LoadMoreDropped ==
    /\ CanCall
    /\ ~LoadMoreAllowed(rendered)
    /\ calls' = calls + 1
    /\ UNCHANGED <<state, rendered, pendingRender, mounted, loads, renders, otherLoads, timer, dels, db, fails, loadCap, toast>>
    /\ UNCHANGED <<params, alive, formVars, pureVars>>

\* the page calls the returned reset()
CallReset ==
    /\ CanCall
    /\ calls' = calls + 1
    /\ state' = SetState(Reset(state))
    /\ pendingRender' = alive
    /\ UNCHANGED <<rendered, mounted, loads, renders, otherLoads, timer, dels, db, fails, loadCap, toast>>
    /\ UNCHANGED <<params, alive, formVars, pureVars>>

\* the page calls the returned setStatePartial to change the selection
SetSelected(sel) ==
    /\ CanCall
    /\ calls' = calls + 1
    /\ state' = SetState(SetStatePartial(state, [ selected |-> sel ]))
    /\ pendingRender' = alive
    /\ UNCHANGED <<rendered, mounted, loads, renders, otherLoads, timer, dels, db, fails, loadCap, toast>>
    /\ UNCHANGED <<params, alive, formVars, pureVars>>

\* the page calls the returned setStatePartial to change the page size
SetLimit(n) ==
    /\ CanCall
    /\ state.limit # n
    /\ calls' = calls + 1
    /\ state' = SetState(SetStatePartial(state, [ limit |-> n ]))
    /\ pendingRender' = alive
    /\ UNCHANGED <<rendered, mounted, loads, renders, otherLoads, timer, dels, db, fails, loadCap, toast>>
    /\ UNCHANGED <<params, alive, formVars, pureVars>>

\* handleSearchChange(value): clearTimeout, setStatePartial({search}), setTimeout(..., 500)
\* the timer callback closes over reset and the loadData of the current render
HandleSearchChange(value) ==
    /\ CanCall
    /\ calls' = calls + 1
    /\ state' = SetState(SetStatePartial(state, [ search |-> value ]))
    /\ timer' = [ pending |-> TRUE, snap |-> rendered ]
    /\ pendingRender' = alive
    /\ UNCHANGED <<rendered, mounted, loads, renders, otherLoads, dels, db, fails, loadCap, toast>>
    /\ UNCHANGED <<params, alive, formVars, pureVars>>

\* 500 ms have passed since the last handleSearchChange: reset(); loadData()
TimerFire ==
    /\ timer.pending
    /\ otherLoads < loadCap
    /\ otherLoads' = otherLoads + 1
    /\ state' = SetState(LoadDataBegin(Reset(state)))
    /\ loads' = Started(loads, NewLoad(timer.snap, "timer", 0))
    /\ timer' = [ pending |-> FALSE, snap |-> Closure(InitialState, InitialParams) ]
    /\ pendingRender' = alive
    /\ UNCHANGED <<renders, rendered, mounted, dels, db, fails, calls, loadCap, toast>>
    /\ UNCHANGED <<params, alive, formVars, pureVars>>

\* the route changes to another collection while the page stays mounted:
\* useParams returns new parameters and the page renders again
ChangeCollection(c) ==
    /\ mounted
    /\ alive
    /\ c # params.collection
    /\ params' = [ params EXCEPT !.collection = c ]
    /\ pendingRender' = TRUE
    /\ UNCHANGED <<state, rendered, mounted, loads, renders, otherLoads, timer, dels, db,
                   fails, calls, loadCap, toast, alive, formVars, pureVars>>

\* the page is unmounted.  Neither effect returns a cleanup function, so
\* searchTimeoutRef keeps its timer and the invocations in flight go on.
Unmount ==
    /\ mounted
    /\ alive
    /\ alive' = FALSE
    /\ pendingRender' = FALSE
    /\ UNCHANGED <<state, rendered, mounted, loads, renders, otherLoads, timer, dels, db,
                   fails, calls, loadCap, toast, params, formVars, pureVars>>

\* ------------------------------------------------------- deletion
\* a handleDelete / handleBulkDelete invocation suspended at showConfirmDialog
NewDel(kind, ids, snap) ==
    [ kind      |-> kind,
      ids       |-> ids,
      snap      |-> snap,
      pc        |-> "confirm",
      confirmed |-> "pending",
      inflight  |-> {},
      called    |-> <<>>,
      failedAt  |-> 0,
      errors    |-> 0,
      didReset  |-> FALSE ]

\* handleDelete(id), up to `await showConfirmDialog(...)`
HandleDelete(id) ==
    /\ CanCall
    /\ Len(dels) < MaxDels
    /\ calls' = calls + 1
    /\ dels' = Append(dels, NewDel("single", <<id>>, rendered))
    /\ UNCHANGED <<state, rendered, pendingRender, mounted, loads, renders, otherLoads, timer, db, fails, loadCap, toast>>
    /\ UNCHANGED <<params, alive, formVars, pureVars>>

\* handleBulkDelete(), selected read from the closure's state, up to the dialog
HandleBulkDelete ==
    /\ CanCall
    /\ Len(dels) < MaxDels
    /\ rendered.selected # <<>>
    /\ calls' = calls + 1
    /\ dels' = Append(dels, NewDel("bulk", rendered.selected, rendered))
    /\ UNCHANGED <<state, rendered, pendingRender, mounted, loads, renders, otherLoads, timer, db, fails, loadCap, toast>>
    /\ UNCHANGED <<params, alive, formVars, pureVars>>

\* handleBulkDelete() with selected.length === 0: a warning toast, nothing else
HandleBulkDeleteEmpty ==
    /\ CanCall
    /\ rendered.selected = <<>>
    /\ calls' = calls + 1
    /\ toast' = "warning"
    /\ UNCHANGED <<state, rendered, pendingRender, mounted, loads, renders, otherLoads, timer, dels, db, fails, loadCap>>
    /\ UNCHANGED <<params, alive, formVars, pureVars>>

ProceedsAlways(confirmed) == TRUE

\* if (confirmed) { ... }
Proceeds(confirmed) == confirmed

AllCalls(ids) == DOMAIN ids

\* the delete calls issued when the loop is entered: the one for the first id
FirstCalls(ids) == { 1 }

RetryCall(ids, i, ok) ==
    IF ~ok THEN { i } ELSE IF i < Len(ids) THEN { i + 1 } ELSE {}

\* the delete calls issued once call i has settled: the loop goes on to the
\* next id after a success and is left by the throw after a failure
NextCalls(ids, i, ok) ==
    IF ok /\ i < Len(ids) THEN { i + 1 } ELSE {}

CallSeq(ids, S) == SortedSeq(S, 1)

\* the confirm dialog of a delete handler resolves
ConfirmResolve(d, answer) ==
    /\ dels[d].pc = "confirm"
    /\ IF Proceeds(answer)
       THEN dels' = [ dels EXCEPT ![d].pc = "deleting",
                                  ![d].confirmed = IF answer THEN "yes" ELSE "no",
                                  ![d].inflight = FirstCalls(dels[d].ids),
                                  ![d].called = [ k \in 1..Cardinality(FirstCalls(dels[d].ids)) |->
                                                    dels[d].ids[CallSeq(dels[d].ids, FirstCalls(dels[d].ids))[k]] ] ]
       ELSE dels' = [ dels EXCEPT ![d].pc = "done", ![d].confirmed = "no" ]
    /\ UNCHANGED <<state, rendered, pendingRender, mounted, loads, renders, otherLoads, timer, db, fails, calls, loadCap, toast>>
    /\ UNCHANGED <<params, alive, formVars, pureVars>>

\* deleteObjectUseCase.execute for ids[i] resolves and the loop goes on
DeleteResolveNext(d, i) ==
    LET del == dels[d]
        next == NextCalls(del.ids, i, TRUE)
    IN /\ del.pc = "deleting"
       /\ i \in del.inflight
       /\ del.ids[i] \in Data(del.snap.collection)
       /\ (del.inflight \ {i}) \cup next # {}
       /\ db' = db \ { del.ids[i] }
       /\ dels' = [ dels EXCEPT ![d].inflight = (del.inflight \ {i}) \cup next,
                                ![d].called = del.called \o
                                    [ k \in 1..Cardinality(next) |-> del.ids[CallSeq(del.ids, next)[k]] ] ]
       /\ UNCHANGED <<state, rendered, pendingRender, mounted, loads, renders, otherLoads, timer, fails, calls, loadCap, toast>>
       /\ UNCHANGED <<params, alive, formVars, pureVars>>

\* deleteObjectUseCase.execute for the last id resolves:
\* showToast(success); reset(); loadData() of the handler's render
DeleteResolveLast(d, i) ==
    LET del == dels[d]
    IN /\ del.pc = "deleting"
       /\ i \in del.inflight
       /\ del.ids[i] \in Data(del.snap.collection)
       /\ (del.inflight \ {i}) \cup NextCalls(del.ids, i, TRUE) = {}
       /\ otherLoads < loadCap
       /\ otherLoads' = otherLoads + 1
       /\ db' = db \ { del.ids[i] }
       /\ toast' = "success"
       /\ state' = SetState(LoadDataBegin(Reset(state)))
       /\ pendingRender' = alive
       /\ loads' = Started(loads, NewLoad(del.snap, "delete", d))
       /\ dels' = [ dels EXCEPT ![d].pc = "load", ![d].inflight = {}, ![d].didReset = TRUE ]
       /\ UNCHANGED <<renders, rendered, mounted, timer, fails, calls, loadCap>>
       /\ UNCHANGED <<params, alive, formVars, pureVars>>

\* deleteObjectUseCase.execute for ids[i] rejects (always when the id is absent):
\* the catch block calls showError
DeleteReject(d, i) ==
    LET del == dels[d]
        next == NextCalls(del.ids, i, FALSE)
    IN /\ del.pc = "deleting"
       /\ i \in del.inflight
       /\ del.ids[i] \notin Data(del.snap.collection) \/ fails < MaxFails
       /\ fails' = IF del.ids[i] \in Data(del.snap.collection) THEN fails + 1 ELSE fails
       /\ dels' = [ dels EXCEPT ![d].pc = IF next = {} THEN "error" ELSE "deleting",
                                ![d].inflight = (del.inflight \ {i}) \cup next,
                                ![d].called = del.called \o
                                    [ k \in 1..Cardinality(next) |-> del.ids[CallSeq(del.ids, next)[k]] ],
                                ![d].failedAt = i,
                                ![d].errors = IF next = {} THEN del.errors + 1 ELSE del.errors ]
       /\ UNCHANGED <<state, rendered, pendingRender, mounted, loads, renders, otherLoads, timer, db, calls, loadCap, toast>>
       /\ UNCHANGED <<params, alive, formVars, pureVars>>

\* the error dialog of a failed delete is acknowledged
DelErrorAck(d) ==
    /\ dels[d].pc = "error"
    /\ dels' = [ dels EXCEPT ![d].pc = "done" ]
    /\ UNCHANGED <<state, rendered, pendingRender, mounted, loads, renders, otherLoads, timer, db, fails, calls, loadCap, toast>>
    /\ UNCHANGED <<params, alive, formVars, pureVars>>

Next ==
    \/ Render
    \/ \E ld \in BagToSet(loads) : FindResolve(ld)
    \/ \E ld \in BagToSet(loads) : FindReject(ld)
    \/ \E ld \in BagToSet(loads) : CountResolve(ld)
    \/ \E ld \in BagToSet(loads) : CountReject(ld)
    \/ \E ld \in BagToSet(loads) : LoadErrorAck(ld)
    \/ LoadMore
    \/ LoadMoreDropped
    \/ CallReset
    \/ \E sel \in SelectChoices : SetSelected(sel)
    \/ SetLimit(PageLimit)
    \/ \E v \in SearchValues : HandleSearchChange(v)
    \/ TimerFire
    \/ \E id \in Ids : HandleDelete(id)
    \/ HandleBulkDelete
    \/ HandleBulkDeleteEmpty
    \/ \E d \in DOMAIN dels, answer \in BOOLEAN : ConfirmResolve(d, answer)
    \/ \E d \in DOMAIN dels : \E i \in DOMAIN dels[d].ids : DeleteResolveNext(d, i)
    \/ \E d \in DOMAIN dels : \E i \in DOMAIN dels[d].ids : DeleteResolveLast(d, i)
    \/ \E d \in DOMAIN dels : \E i \in DOMAIN dels[d].ids : DeleteReject(d, i)
    \/ \E d \in DOMAIN dels : DelErrorAck(d)

Spec == Init /\ [][Next]_vars

\* ------------------------------------------------------- longer behaviours
\* The same presenter followed for more loadData invocations, with use cases
\* that never reject and a page that only scrolls and deletes single rows.
InitDeep ==
    /\ ListConstructed(DeepLoads)
    /\ args = NoArgs
    /\ result = NoResult
    /\ FormConstructed(NewId)

NextDeep ==
    \/ Render
    \/ \E ld \in BagToSet(loads) : FindResolve(ld)
    \/ \E ld \in BagToSet(loads) : CountResolve(ld)
    \/ LoadMore
    \/ LoadMoreDropped
    \/ \E id \in Ids : HandleDelete(id)
    \/ \E d \in DOMAIN dels, answer \in BOOLEAN : ConfirmResolve(d, answer)
    \/ \E d \in DOMAIN dels : \E i \in DOMAIN dels[d].ids : DeleteResolveLast(d, i)

SpecDeep == InitDeep /\ [][NextDeep]_vars

\* ------------------------------------------------------- navigation
\* The presenter of a page that searches, is navigated to another collection
\* and is unmounted, with use cases that never reject.
NextRoute ==
    \/ Render
    \/ \E ld \in BagToSet(loads) : FindResolve(ld)
    \/ \E ld \in BagToSet(loads) : CountResolve(ld)
    \/ \E v \in SearchValues : HandleSearchChange(v)
    \/ TimerFire
    \/ \E c \in Collections : ChangeCollection(c)
    \/ Unmount

SpecRoute == Init /\ [][NextRoute]_vars

\* the list page with typing in the search box as the only user input
NextSearch ==
    \/ Render
    \/ \E ld \in BagToSet(loads) : FindResolve(ld)
    \/ \E ld \in BagToSet(loads) : CountResolve(ld)
    \/ \E v \in SearchValues : HandleSearchChange(v)
    \/ TimerFire

SpecSearch == InitDeep /\ [][NextSearch]_vars

\* ------------------------------------------------------- buildWhere on its own
\* buildWhere applied once to a search text, a filters object and the fields
\* of a schema (none when the collection has no schema).
WhereSearches == { << >>, << " " >>, << " ", " " >>, << "a" >>, << " ", "a" >>, << "A", " " >> }

WhereFilters ==
    { EmptyObject,
      [ status |-> "open" ],
      [ status |-> "open", owner |-> "me" ],
      ("$or" :> << [ field |-> "status", regex |-> << "z" >>, options |-> "i" ] >>) }

WhereSchemas ==
    { << >>,
      SchemaFields,
      << [ name |-> "views", type |-> "Number" ] >>,
      << [ name |-> "title", type |-> "String" ],
         [ name |-> "views", type |-> "Number" ],
         [ name |-> "body", type |-> "String" ] >> }

InitWhere ==
    /\ args \in [ search : WhereSearches, filters : WhereFilters, fields : WhereSchemas ]
    /\ result = NoResult
    /\ ListConstructed(MaxLoads)
    /\ FormConstructed(NewId)

ApplyBuildWhere ==
    /\ ~result.done
    /\ result' = [ done |-> TRUE, where |-> BuildWhere(args.search, args.filters, args.fields) ]
    /\ UNCHANGED <<args, listVars, formVars>>

NextWhere == ApplyBuildWhere

SpecWhere == InitWhere /\ [][NextWhere]_vars

\* ------------------------------------------------------- form: validation
\* isNaN(Number(value)): a string is a number when it is made of digits
\* (the empty string converts to 0)
IsNaN(value) ==
    value.t = "String" /\ \E i \in DOMAIN value.v : DigitOf(value.v[i]) < 0

\* Number(value), for a value that is not NaN
NumberOf(value) == DigitsValue(value.v)

FieldMessageInclusive(object, fieldName, fieldConfig) ==
    LET present == fieldName \in DOMAIN object
        value == object[fieldName]
        required == fieldConfig.required /\ (~present \/ ~Truthy(value))
        tooLong == /\ fieldConfig.type = "String"
                   /\ "maxLength" \in DOMAIN fieldConfig
                   /\ fieldConfig.maxLength # 0
                   /\ present
                   /\ Truthy(value)
                   /\ value.t = "String"
                   /\ Len(value.v) > fieldConfig.maxLength
        numeric == fieldConfig.type = "Number" /\ present /\ value.t # "Null"
    IN IF numeric /\ IsNaN(value) THEN "number"
       ELSE IF numeric /\ "min" \in DOMAIN fieldConfig /\ NumberOf(value) <= fieldConfig.min
       THEN "min"
       ELSE IF numeric /\ "max" \in DOMAIN fieldConfig /\ NumberOf(value) >= fieldConfig.max
       THEN "max"
       ELSE IF tooLong THEN "maxLength"
       ELSE IF required THEN "required"
       ELSE "none"

\* the rules of validateForm for one field, in the order of the code: the
\* message errors[fieldName] holds after the three rules ("none" for no
\* entry); a later rule overwrites the message of an earlier one
FieldMessage(object, fieldName, fieldConfig) ==
    LET present == fieldName \in DOMAIN object
        value == object[fieldName]
        required == fieldConfig.required /\ (~present \/ ~Truthy(value))
        tooLong == /\ fieldConfig.type = "String"
                   /\ "maxLength" \in DOMAIN fieldConfig
                   /\ fieldConfig.maxLength # 0
                   /\ present
                   /\ Truthy(value)
                   /\ value.t = "String"
                   /\ Len(value.v) > fieldConfig.maxLength
        numeric == fieldConfig.type = "Number" /\ present /\ value.t # "Null"
    IN IF numeric /\ IsNaN(value) THEN "number"
       ELSE IF numeric /\ "min" \in DOMAIN fieldConfig /\ NumberOf(value) < fieldConfig.min
       THEN "min"
       ELSE IF numeric /\ "max" \in DOMAIN fieldConfig /\ NumberOf(value) > fieldConfig.max
       THEN "max"
       ELSE IF tooLong THEN "maxLength"
       ELSE IF required THEN "required"
       ELSE "none"

\* does errors get an entry for the field
FieldError(object, fieldName, fieldConfig) ==
    FieldMessage(object, fieldName, fieldConfig) # "none"

\* validateForm(): the keys of errors; isValid is that there is none
ValidateForm(object, fields) ==
    { fieldName \in DOMAIN fields : FieldError(object, fieldName, fields[fieldName]) }

\* context.schemas?.find(s => s.collection === getCollectionName()).fields
FormFieldsOf(collection) == FormSchema

IsValid(view) == ValidateForm(view.object, FormFieldsOf(view.collection)) = {}

\* ------------------------------------------------------- form: server
\* the id the server gives the next object it creates
Created == DOMAIN store \ StoredIds

CanCreate == Cardinality(Created) < Len(FreshIds)

NextFreshId == FreshIds[Cardinality(Created) + 1]

\* upsertObjectUseCase.execute(collection, object): the object as saved
UpsertExecute(object) ==
    IF "id" \in DOMAIN object
    THEN Spread(store[object["id"].v[1]], object)
    ELSE Put(object, "id", Str(<< NextFreshId >>))

\* ------------------------------------------------------- form: actions
\* does loadData of a render with this closure call the get use case
Fetches(view) == view.id # NoId /\ view.id # NewId

\* navigate() to the list route takes the form page off the screen: it is
\* not rendered again and React drops the state updates that arrive later
FormLeft == formParams.id = NoId

FormSetState(next) == IF FormLeft THEN form ELSE next

\* loadData of the form hook, up to its first await or to its end
FormLoadDataBegin(prev, view) ==
    IF Fetches(view)
    THEN SetStatePartial(prev, [ loading |-> TRUE ])
    ELSE SetStatePartial(prev, [ loading |-> FALSE ])

NewGet(view) == [ collection |-> view.collection, id |-> view.id, pc |-> "get" ]

\* A render of the form page is committed and its effects run.  loadData is
\* re-created by every render (showError is a new function each time), so
\* both effects run after every render:
\*   effect 1: loadData();   effect 2: if (id) loadData()
FormRender ==
    LET view == FormClosure(form, formParams)
    IN /\ formPending
       /\ ~FormLeft
       /\ formRenders < MaxFormRenders
       /\ formRenders' = formRenders + 1
       /\ formView' = view
       /\ form' = FormLoadDataBegin(FormLoadDataBegin(form, view), view)
       /\ gets' = IF Fetches(view)
                  THEN Started(Started(gets, NewGet(view)), NewGet(view))
                  ELSE gets
       /\ formMounted' = TRUE
       /\ formPending' = TRUE
       /\ UNCHANGED <<formParams, submits, navigations, formToast, store, formCalls, formFails>>
       /\ UNCHANGED <<dialogs, listVars, pureVars>>

\* getObjectUseCase.execute resolves: setStatePartial({ object, loading: false })
GetResolve(g) ==
    /\ g.pc = "get"
    /\ g.id \in DOMAIN store
    /\ form' = FormSetState(SetStatePartial(form, [ object |-> store[g.id], loading |-> FALSE ]))
    /\ gets' = Returned(gets, g)
    /\ formPending' = TRUE
    /\ UNCHANGED <<formView, formParams, formMounted, submits, navigations, formToast,
                   store, formRenders, formCalls, formFails>>
    /\ UNCHANGED <<dialogs, listVars, pureVars>>

\* getObjectUseCase.execute rejects (always when the server has no such object)
GetReject(g) ==
    /\ g.pc = "get"
    /\ g.id \notin DOMAIN store \/ formFails < MaxFormFails
    /\ formFails' = IF g.id \in DOMAIN store THEN formFails + 1 ELSE formFails
    /\ form' = FormSetState(SetStatePartial(form, [ loading |-> FALSE ]))
    /\ gets' = Stepped(gets, g, [ g EXCEPT !.pc = "error" ])
    /\ formPending' = TRUE
    /\ UNCHANGED <<formView, formParams, formMounted, submits, navigations, formToast,
                   store, formRenders, formCalls>>
    /\ UNCHANGED <<dialogs, listVars, pureVars>>

\* the error dialog of a failed loadData is acknowledged
GetErrorAck(g) ==
    /\ g.pc = "error"
    /\ gets' = Returned(gets, g)
    /\ UNCHANGED <<form, formView, formParams, formPending, formMounted, submits, navigations,
                   formToast, store, formRenders, formCalls, formFails>>
    /\ UNCHANGED <<dialogs, listVars, pureVars>>

\* the form page calls the presenter through the closures of its last render
FormCanCall ==
    /\ formMounted
    /\ ~FormLeft
    /\ formCalls < MaxFormCalls

\* handleFieldChange(field, value): object and change are read from the closure
HandleFieldChange(field, value) ==
    /\ FormCanCall
    /\ formCalls' = formCalls + 1
    /\ form' = SetStatePartial(form, [ object |-> Put(formView.object, field, value),
                                       change |-> Put(formView.change, field, value),
                                       dirty  |-> TRUE ])
    /\ formPending' = TRUE
    /\ UNCHANGED <<formView, formParams, formMounted, gets, submits, navigations, formToast,
                   store, formRenders, formFails>>
    /\ UNCHANGED <<dialogs, listVars, pureVars>>

\* handleSubmit: the re-entrancy guard `if (submitting) return` lets the call on
SubmitAllowed(view) == ~view.submitting

\* handleSubmit() while the closure's state.submitting is true: nothing happens
HandleSubmitDropped ==
    /\ FormCanCall
    /\ ~SubmitAllowed(formView)
    /\ formCalls' = formCalls + 1
    /\ UNCHANGED <<form, formView, formParams, formPending, formMounted, gets, submits,
                   navigations, formToast, store, formRenders, formFails>>
    /\ UNCHANGED <<dialogs, listVars, pureVars>>

\* handleSubmit: validateForm().isValid lets the call on
SubmitValid(view) == IsValid(view)

\* handleSubmit() on an object that does not validate: an error toast, nothing else
HandleSubmitInvalid ==
    /\ FormCanCall
    /\ SubmitAllowed(formView)
    /\ ~SubmitValid(formView)
    /\ formCalls' = formCalls + 1
    /\ formToast' = "error"
    /\ UNCHANGED <<form, formView, formParams, formPending, formMounted, gets, submits,
                   navigations, store, formRenders, formFails>>
    /\ UNCHANGED <<dialogs, listVars, pureVars>>

\* the object handleSubmit passes to the upsert use case: state.object of the closure
SubmitPayload(view) == view.object

\* a handleSubmit invocation suspended at `await upsertObjectUseCase.execute(...)`
NewSubmit(view) ==
    [ collection |-> view.collection,
      id         |-> view.id,
      payload    |-> SubmitPayload(view),
      change     |-> view.change,
      pc         |-> "upsert",
      result     |-> EmptyObject ]

\* handleSubmit() up to the upsert call: setStatePartial({ submitting: true })
HandleSubmit ==
    /\ FormCanCall
    /\ SubmitAllowed(formView)
    /\ SubmitValid(formView)
    /\ formCalls' = formCalls + 1
    /\ form' = SetStatePartial(form, [ submitting |-> TRUE ])
    /\ submits' = Append(submits, NewSubmit(formView))
    /\ formPending' = TRUE
    /\ UNCHANGED <<formView, formParams, formMounted, gets, navigations, formToast,
                   store, formRenders, formFails>>
    /\ UNCHANGED <<dialogs, listVars, pureVars>>

\* if (id === "new") navigate(...): the paths handleSubmit navigates to on success
SubmitNavigation(sub, saved) ==
    IF sub.id = NewId
    THEN << [ collection |-> sub.collection, id |-> saved["id"].v[1] ] >>
    ELSE << >>

SubmitSuccessKeepsSubmitting(prev) == SetStatePartial(prev, [ dirty |-> FALSE ])

\* handleSubmit after the upsert resolved: setStatePartial({ dirty: false, submitting: false })
SubmitSuccess(prev) == SetStatePartial(prev, [ dirty |-> FALSE, submitting |-> FALSE ])

\* upsertObjectUseCase.execute resolves: success toast, state update and, in
\* the create flow, navigate to the form route of the id returned, which
\* changes the route parameters of the mounted page
UpsertResolve(k) ==
    LET sub == submits[k]
        saved == UpsertExecute(sub.payload)
        nav == SubmitNavigation(sub, saved)
    IN /\ sub.pc = "upsert"
       /\ "id" \in DOMAIN sub.payload \/ CanCreate
       /\ store' = [ id \in DOMAIN store \cup { saved["id"].v[1] } |->
                       IF id = saved["id"].v[1] THEN saved ELSE store[id] ]
       /\ formToast' = "success"
       /\ form' = FormSetState(SubmitSuccess(form))
       /\ navigations' = navigations \o nav
       /\ formParams' = IF nav = << >> THEN formParams ELSE nav[Len(nav)]
       /\ submits' = [ submits EXCEPT ![k].pc = "done", ![k].result = saved ]
       /\ formPending' = TRUE
       /\ UNCHANGED <<formView, formMounted, gets, formRenders, formCalls, formFails>>
       /\ UNCHANGED <<dialogs, listVars, pureVars>>

\* upsertObjectUseCase.execute rejects: setStatePartial({ submitting: false }), showError
UpsertReject(k) ==
    /\ submits[k].pc = "upsert"
    /\ formFails < MaxFormFails
    /\ formFails' = formFails + 1
    /\ form' = FormSetState(SetStatePartial(form, [ submitting |-> FALSE ]))
    /\ submits' = [ submits EXCEPT ![k].pc = "error" ]
    /\ formPending' = TRUE
    /\ UNCHANGED <<formView, formParams, formMounted, gets, navigations, formToast,
                   store, formRenders, formCalls>>
    /\ UNCHANGED <<dialogs, listVars, pureVars>>

\* the error dialog of a failed handleSubmit is acknowledged
SubmitErrorAck(k) ==
    /\ submits[k].pc = "error"
    /\ submits' = [ submits EXCEPT ![k].pc = "done" ]
    /\ UNCHANGED <<form, formView, formParams, formPending, formMounted, gets, navigations,
                   formToast, store, formRenders, formCalls, formFails>>
    /\ UNCHANGED <<dialogs, listVars, pureVars>>

\* the route changes to the form of another object while the page stays mounted
ChangeFormId(id) ==
    /\ formMounted
    /\ id # formParams.id
    /\ formParams' = [ formParams EXCEPT !.id = id ]
    /\ formPending' = TRUE
    /\ UNCHANGED <<form, formView, formMounted, gets, submits, navigations, formToast,
                   store, formRenders, formCalls, formFails>>
    /\ UNCHANGED <<dialogs, listVars, pureVars>>

\* ------------------------------------------------------- validateForm on its own
\* validateForm applied once to an object and to what context.schemas holds
\* for the collection.
ValidateObjects ==
    LET absent == [ t |-> "Absent", v |-> << >> ]
        choices ==
          [ title : { absent, Str(<< >>), Str(<< "t", "1" >>), Str(<< "a", "b", "c" >>) },
            views : { absent, [ t |-> "Null", v |-> << >> ], Str(<< >>), Str(<< "x" >>),
                      Str(<< "5" >>), Num(<< "0" >>), Num(<< "1" >>), Num(<< "2" >>),
                      Num(<< "5" >>), Num(<< "6" >>), [ t |-> "Boolean", v |-> << "0" >> ] },
            flag  : { absent, [ t |-> "Boolean", v |-> << "0" >> ],
                      [ t |-> "Boolean", v |-> << "1" >> ] } ]
    IN { [ k \in { n \in DOMAIN c : c[n] # absent } |-> c[k] ] : c \in choices }

\* found is false when no schema matches the collection; fields is
\* schema.fields || {}
ValidateSchemas ==
    { [ found |-> FALSE, fields |-> EmptyObject ],
      [ found |-> TRUE, fields |-> EmptyObject ],
      [ found |-> TRUE, fields |-> FormSchema ],
      [ found |-> TRUE, fields |-> [ title |-> [ type |-> "String", required |-> FALSE ] ] ],
      [ found |-> TRUE,
        fields |-> [ views |-> [ type |-> "Number", required |-> FALSE, min |-> 2, max |-> 5 ] ] ],
      [ found |-> TRUE,
        fields |-> [ views |-> [ type |-> "Number", required |-> TRUE, min |-> 0, max |-> 5 ] ] ],
      [ found |-> TRUE, fields |-> [ views |-> [ type |-> "Number", required |-> FALSE ] ] ],
      [ found |-> TRUE, fields |-> [ flag |-> [ type |-> "Boolean", required |-> TRUE ] ] ] }

ValidateFormEveryKey(object, schema) ==
    LET errors == [ k \in { n \in DOMAIN object : ~Truthy(object[n]) } |-> "required" ]
    IN [ isValid |-> DOMAIN errors = {}, errors |-> errors ]

\* validateForm(): { isValid, errors }, errors holding one message per
\* failing field of the schema
ValidateFormOf(object, schema) ==
    IF ~schema.found
    THEN [ isValid |-> TRUE, errors |-> EmptyObject ]
    ELSE LET errors == [ fieldName \in ValidateForm(object, schema.fields) |->
                           FieldMessage(object, fieldName, schema.fields[fieldName]) ]
         IN [ isValid |-> DOMAIN errors = {}, errors |-> errors ]

InitValidate ==
    /\ args \in [ object : ValidateObjects, schema : ValidateSchemas ]
    /\ result = [ done |-> FALSE, isValid |-> TRUE, errors |-> EmptyObject ]
    /\ ListConstructed(MaxLoads)
    /\ FormConstructed(NewId)

ApplyValidateForm ==
    /\ ~result.done
    /\ result' = [ done |-> TRUE ] @@ ValidateFormOf(args.object, args.schema)
    /\ UNCHANGED <<args, listVars, formVars>>

SpecValidate == InitValidate /\ [][ApplyValidateForm]_vars

\* ------------------------------------------------------- form: dialogs and handleCancel
ResolveAgain(promise, value) == value

\* resolve(value) of the promise showConfirmDialog returns: the first call
\* settles the promise, a later call changes nothing
Resolve(promise, value) == IF promise = "pending" THEN value ELSE promise

\* showConfirmDialog(...): portal.open of a new ConfirmDialog with its own
\* close and its own resolve; owner is the handler that awaits the promise
OpenDialog(owner, collection) ==
    Append(dialogs, [ owner |-> owner, collection |-> collection, open |-> TRUE,
                      promise |-> "pending", clicks |-> 0 ])

\* a page calls showConfirmDialog and awaits nothing else
ShowConfirmDialog ==
    /\ formMounted
    /\ Len(dialogs) < MaxDialogs
    /\ dialogs' = OpenDialog("page", formParams.collection)
    /\ UNCHANGED <<form, formView, formParams, formPending, formMounted, gets, submits,
                   navigations, formToast, store, formRenders, formCalls, formFails>>
    /\ UNCHANGED <<listVars, pureVars>>

\* the path handleCancel navigates to: `/collections/${getCollectionName()}`
ListPath(collection) == [ collection |-> collection, id |-> NoId ]

\* handleCancel(): dirty is read from the closure; a clean form navigates to
\* the list at once, a dirty one opens the unsaved-changes dialog and awaits it
HandleCancel ==
    /\ FormCanCall
    /\ formCalls' = formCalls + 1
    /\ IF formView.dirty
       THEN /\ Len(dialogs) < MaxDialogs
            /\ dialogs' = OpenDialog("handleCancel", formView.collection)
            /\ UNCHANGED <<navigations, formParams>>
       ELSE /\ navigations' = Append(navigations, ListPath(formView.collection))
            /\ formParams' = ListPath(formView.collection)
            /\ UNCHANGED dialogs
    /\ UNCHANGED <<form, formView, formPending, formMounted, gets, submits, formToast,
                   store, formRenders, formFails>>
    /\ UNCHANGED <<listVars, pureVars>>

\* onConfirm (answer "true") or onCancel (answer "false") of dialog k: close(),
\* resolve(answer); the handleCancel awaiting the promise resumes when it
\* settles and navigates to the list if the answer is "true".  A second click
\* can arrive before the portal has taken the dialog off the screen.
DialogAct(k, answer) ==
    LET d == dialogs[k]
        resumes == d.promise = "pending" /\ d.owner = "handleCancel"
    IN /\ d.clicks < MaxClicks
       /\ dialogs' = [ dialogs EXCEPT ![k].open = FALSE,
                                      ![k].promise = Resolve(d.promise, answer),
                                      ![k].clicks = d.clicks + 1 ]
       /\ IF resumes /\ answer = "true"
          THEN /\ navigations' = Append(navigations, ListPath(d.collection))
               /\ formParams' = ListPath(d.collection)
          ELSE UNCHANGED <<navigations, formParams>>
       /\ UNCHANGED <<form, formView, formPending, formMounted, gets, submits, formToast,
                      store, formRenders, formCalls, formFails>>
       /\ UNCHANGED <<listVars, pureVars>>

\* ------------------------------------------------------- form: specification
\* the ids of the route the form page is opened on: a new object or object "1"
OpenedOn == { NewId, "1" }

InitForm ==
    /\ ListConstructed(MaxLoads)
    /\ args = NoArgs
    /\ result = NoResult
    /\ \E id \in OpenedOn : FormConstructed(id)

NextForm ==
    \/ FormRender
    \/ \E g \in BagToSet(gets) : GetResolve(g)
    \/ \E g \in BagToSet(gets) : GetReject(g)
    \/ \E g \in BagToSet(gets) : GetErrorAck(g)
    \/ \E in \in FieldInputs : HandleFieldChange(in[1], in[2])
    \/ HandleSubmitDropped
    \/ HandleSubmitInvalid
    \/ HandleSubmit
    \/ \E k \in DOMAIN submits : UpsertResolve(k)
    \/ \E k \in DOMAIN submits : UpsertReject(k)
    \/ \E k \in DOMAIN submits : SubmitErrorAck(k)
    \/ \E id \in { NewId } \cup StoredIds : ChangeFormId(id)

SpecForm == InitForm /\ [][NextForm]_vars

\* the form page with handleFieldChange, handleCancel and the confirm dialogs
NextCancel ==
    \/ FormRender
    \/ \E g \in BagToSet(gets) : GetResolve(g)
    \/ \E in \in FieldInputs : HandleFieldChange(in[1], in[2])
    \/ HandleCancel
    \/ ShowConfirmDialog
    \/ \E k \in DOMAIN dialogs : DialogAct(k, "true")
    \/ \E k \in DOMAIN dialogs : DialogAct(k, "false")

SpecCancel == InitForm /\ [][NextCancel]_vars

\* ------------------------------------------------------- the form page's own submit
\* handleSubmit of CollectionFormPage, which the page's <form onSubmit> calls.
\* The object and the change come from the page's base hook and the errors
\* from its validateObject: all three are inputs here.
PageObjects ==
    { EmptyObject,
      [ title |-> Str(<< >>) ],
      [ title |-> Str(<< "x" >>) ],
      StoredObject("1") }

PageChanges ==
    { EmptyObject,
      [ title |-> Str(<< "y" >>) ],
      [ views |-> Str(<< "7" >>) ] }

PageErrors == SUBSET DOMAIN FormSchema

\* props.params.id of the page: absent, the "new" of the create route, or a stored id
PageIds == { NoId, NewId, "1" }

PageIdle ==
    [ pc |-> "idle", toast |-> "none", saved |-> << >>,
      load |-> "idle", gets |-> << >>, object |-> EmptyObject ]

InitPage ==
    /\ args \in [ object : PageObjects, change : PageChanges, errors : PageErrors,
                   id : PageIds ]
    /\ result = PageIdle
    /\ ListConstructed(MaxLoads)
    /\ FormConstructed(NewId)

\* const finalObject = { ...object, ...change }
FinalObject(object, change) == Spread(object, change)

\* handleSubmit up to its first await, or to the throw that leaves it:
\* errors make it throw "Validation failed", which its own catch wraps and
\* throws on to the caller; otherwise saveObject is called
PageHandleSubmit ==
    /\ result.pc = "idle"
    /\ result' = IF args.errors # {}
                 THEN [ result EXCEPT !.pc = "thrown" ]
                 ELSE [ result EXCEPT !.pc = "saving",
                                      !.saved = << FinalObject(args.object, args.change) >> ]
    /\ UNCHANGED <<args, listVars, formVars>>

\* logic.saveObject resolves: handleSubmit returns the result
PageSaveResolve ==
    /\ result.pc = "saving"
    /\ result' = [ result EXCEPT !.pc = "returned" ]
    /\ UNCHANGED <<args, listVars, formVars>>

\* logic.saveObject rejects: the catch throws "Failed to save object" on
PageSaveReject ==
    /\ result.pc = "saving"
    /\ result' = [ result EXCEPT !.pc = "thrown" ]
    /\ UNCHANGED <<args, listVars, formVars>>

\* generateNewObject()
GenerateNewObject ==
    [ name |-> Str(<< >>), description |-> Str(<< >>),
      status |-> Str(<< "a", "c", "t", "i", "v", "e" >>),
      email |-> Str(<< >>), phone |-> Str(<< >>) ]

\* loadFormData up to its await or to its end: isEdit = !!id; an edit calls
\* logic.loadObject(collection, id), otherwise the object is generated
PageLoadFormData ==
    /\ result.load = "idle"
    /\ result' = IF args.id # NoId
                 THEN [ result EXCEPT !.load = "loading",
                                      !.gets = << [ collection |-> "A", id |-> args.id ] >> ]
                 ELSE [ result EXCEPT !.load = "done", !.object = GenerateNewObject ]
    /\ UNCHANGED <<args, listVars, formVars>>

\* logic.loadObject resolves with the stored object: page.setObject(object)
PageLoadResolve ==
    /\ result.load = "loading"
    /\ args.id \in StoredIds
    /\ result' = [ result EXCEPT !.load = "done", !.object = StoredObject(args.id) ]
    /\ UNCHANGED <<args, listVars, formVars>>

\* logic.loadObject rejects: page.showError("Failed to load form data: ...")
PageLoadReject ==
    /\ result.load = "loading"
    /\ result' = [ result EXCEPT !.load = "failed" ]
    /\ UNCHANGED <<args, listVars, formVars>>

NextPage ==
    \/ PageLoadFormData
    \/ PageLoadResolve
    \/ PageLoadReject
    \/ PageHandleSubmit
    \/ PageSaveResolve
    \/ PageSaveReject

SpecPage == InitPage /\ [][NextPage]_vars

\* ------------------------------------------------------- properties
Outstanding(ld) == ld.pc \in { "find", "count" }

\* how many of the invocations in flight are in the set S
InFlight(S) == BagCardinality([ ld \in S \cap BagToSet(loads) |-> loads[ld] ])

FindsInFlight == InFlight({ ld \in BagToSet(loads) : ld.pc = "find" })

OutstandingLoads == InFlight({ ld \in BagToSet(loads) : Outstanding(ld) })

\* C1: when the debounce timer fires after a burst of handleSearchChange
\* calls, exactly one load is started and its find query is built from the
\* last value passed, which is the search the state holds.
C1_DebouncedReloadUsesLastValue ==
    [][ (timer.pending /\ ~timer'.pending) =>
            /\ otherLoads' = otherLoads + 1
            /\ BagCardinality(loads') = BagCardinality(loads) + 1
            /\ \E ld \in BagToSet(loads') :
                 /\ CopiesIn(ld, loads') = CopiesIn(ld, loads) + 1
                 /\ ld.origin = "timer" /\ ld.pc = "find"
                 /\ ld.query.where = BuildWhere(state'.search, state'.filters, FieldsOf(ld.coll)) ]_vars

\* C2: a loadMore call made while the load started by an earlier loadMore
\* is still outstanding is dropped, so never two loads started by loadMore
\* are outstanding together.
C2_SecondLoadMoreDropped ==
    InFlight({ ld \in BagToSet(loads) : ld.origin = "loadMore" /\ Outstanding(ld) }) <= 1

\* C3: at most one find request of the presenter is in flight.
C3_OneFindInFlight == FindsInFlight <= 1

\* C4: when a loadData invocation completes successfully, objects is the
\* find result alone for page 1 and the objects accumulated so far followed
\* by the find result for a later page, and count is the count result.
C4_ReplaceOnFirstPage ==
    [][ \A ld \in BagToSet(loads) :
          (ld.pc = "count" /\ CopiesIn(ld, loads') < CopiesIn(ld, loads) /\ fails' = fails) =>
             /\ state'.objects = IF ld.cur = 1 THEN ld.found ELSE state.objects \o ld.found
             /\ state'.count = CountExecute(Data(ld.coll), ld.query.where) ]_vars

\* C5: every step in which reset() is called ends with objects and selected
\* empty and current 1, and with search, filters, sort, limit and count as
\* they were before the step.
ResetCalled ==
    \/ CallReset
    \/ TimerFire
    \/ Render
    \/ \E d \in DOMAIN dels : \E i \in DOMAIN dels[d].ids : DeleteResolveLast(d, i)

C5_ResetFrame ==
    [][ ResetCalled =>
            /\ state'.objects = <<>>
            /\ state'.selected = <<>>
            /\ state'.current = 1
            /\ state'.search = state.search
            /\ state'.filters = state.filters
            /\ state'.sort = state.sort
            /\ state'.limit = state.limit
            /\ state'.count = state.count ]_vars

\* the timer callback has just run reset() on a state with a search, a
\* count and a page size that are not the initial ones
C5_Witness ==
    /\ \E ld \in BagToSet(loads) : ld.origin = "timer" /\ ld.pc = "find"
    /\ state.objects = <<>> /\ state.current = 1
    /\ state.search # <<>> /\ state.count > 0 /\ state.limit = PageLimit

\* C6: a step that starts a loadData invocation leaves loading true, a step
\* in which an invocation leaves its try block (both awaits done, or the
\* catch block entered) leaves loading false, and whenever no invocation is
\* between these two points loading is false.
C6_LoadingReleased ==
    /\ [][ /\ (renders' > renders \/ otherLoads' > otherLoads) => state'.loading
           /\ OutstandingLoads' < OutstandingLoads => ~state'.loading ]_vars
    /\ []( (mounted /\ OutstandingLoads = 0) => ~state.loading )

\* one load has returned with records, another has entered its catch block
\* and waits in its error dialog, and none is outstanding
C6_Witness ==
    /\ mounted
    /\ OutstandingLoads = 0
    /\ \E ld \in BagToSet(loads) : ld.pc = "error" /\ ld.result = "findFailed"
    /\ state.objects # <<>>
    /\ ~state.loading

\* C7: a delete handler calls the delete use case only after its own confirm
\* dialog resolved true; when the dialog resolves false the handler ends
\* with no delete call, no reset, no load and no error dialog, and the state
\* is what it was.
C7_DeleteNeedsConfirm ==
    /\ []( \A d \in DOMAIN dels : dels[d].called # <<>> => dels[d].confirmed = "yes" )
    /\ [][ \A d \in DOMAIN dels :
             (dels[d].pc = "confirm" /\ dels'[d].confirmed = "no") =>
                /\ dels'[d].pc = "done"
                /\ dels'[d].called = <<>> /\ dels'[d].inflight = {}
                /\ dels'[d].errors = 0 /\ ~dels'[d].didReset
                /\ state' = state /\ loads' = loads /\ db' = db
                /\ otherLoads' = otherLoads ]_vars

\* a bulk delete of three selected ids was declined
C7_Witness ==
    \E d \in DOMAIN dels :
        /\ dels[d].kind = "bulk" /\ Len(dels[d].ids) = 3
        /\ dels[d].confirmed = "no" /\ dels[d].pc = "done"
        /\ db = AllIds

C10_ReloadAfterDelete ==
    [][ \A d \in DOMAIN dels :
          (/\ dels[d].pc = "load" /\ dels'[d].pc = "done" /\ fails' = fails
           /\ \E ld \in BagToSet(loads) : ld.owner = d /\ ld.pc = "count") =>
                /\ state'.selected = <<>>
                /\ state'.current = 1
                /\ state'.objects = FindExecute(Data(params.collection), BuildQuery(Closure(state', params)))
                /\ \A j \in DOMAIN dels[d].ids : dels[d].ids[j] \notin Range(state'.objects) ]_vars

\* C11: when the collection route parameter changes, the list starts over
\* for the new collection: once a load issued for the collection navigated
\* to completes, current is 1, selected is empty and objects holds exactly
\* the first page of that collection, with no record of the collection left.
C11_CollectionChangeStartsOver ==
    [][ \A ld \in BagToSet(loads) :
          ( /\ CountResolve(ld)
            /\ alive
            /\ ld.coll # InitialParams.collection
            /\ ld.coll = params.collection )
          => /\ state'.current = 1
             /\ state'.selected = <<>>
             /\ state'.objects = FindExecute(Data(ld.coll), [ ld.query EXCEPT !.skip = 0 ])
             /\ \A i \in DOMAIN state'.objects :
                    CollectionOf(state'.objects[i]) = ld.coll ]_vars

\* C12: a debounce timer that is pending when the collection changes or
\* the page is unmounted is cancelled: the timer only ever fires, and runs
\* its reset and loadData, on a mounted page showing the collection the
\* timer was armed for.
C12_TimerCancelledOnLeave ==
    [][ TimerFire => /\ alive
                     /\ timer.snap.collection = params.collection ]_vars

\* C13: with a blank search (empty or only whitespace) buildWhere returns
\* a copy of filters, whatever the schema: every entry of filters and no
\* other key, so no $or clause is added for the search.
C13_BlankSearchCopiesFilters ==
    (result.done /\ IsBlank(args.search))
    => /\ result.where = args.filters
       /\ "$or" \in DOMAIN result.where => "$or" \in DOMAIN args.filters

C13_Witness ==
    /\ result.done
    /\ args.search = << " ", " " >>
    /\ args.filters = [ status |-> "open" ]
    /\ args.fields = SchemaFields
    /\ result.where = [ status |-> "open" ]

\* C14: with a non-blank search the result has the key $or next to the
\* entries of filters and nothing else; every entry of filters is carried
\* unchanged, a key of filters winning over a same-named key; and, unless
\* filters overrides it, $or holds exactly one {$regex: search, $options: "i"}
\* condition for every String field of the schema and none for another field.
C14_SearchBuildsOr ==
    (result.done /\ ~IsBlank(args.search))
    => /\ DOMAIN result.where = DOMAIN args.filters \cup { "$or" }
       /\ \A k \in DOMAIN args.filters : result.where[k] = args.filters[k]
       /\ "$or" \notin DOMAIN args.filters =>
            LET or == result.where["$or"]
                strings == { i \in DOMAIN args.fields : args.fields[i].type = "String" }
            IN /\ \A i \in strings :
                    Cardinality({ j \in DOMAIN or :
                        or[j] = [ field |-> args.fields[i].name,
                                  regex |-> args.search,
                                  options |-> "i" ] }) = 1
               /\ \A j \in DOMAIN or :
                    \E i \in strings : or[j].field = args.fields[i].name

C14_Witness ==
    /\ result.done
    /\ args.search = << " ", "a" >>
    /\ args.filters = [ status |-> "open" ]
    /\ Len(args.fields) = 3
    /\ Len(result.where["$or"]) = 2
    /\ result.where["status"] = "open"

\* the handleSubmit invocations suspended at the upsert call
UpsertsInFlight == { k \in DOMAIN submits : submits[k].pc = "upsert" }

\* C15: at most one upsert call of the form presenter is in flight at any
\* time: a handleSubmit invoked while an earlier one has not finished does
\* not call upsert, also when both are invoked before a re-render.
C15_OneUpsertInFlight == Cardinality(UpsertsInFlight) <= 1

\* C16: when validation reports errors, handleSubmit shows a toast, does not
\* call the upsert use case, throws nothing to its caller and leaves the
\* object and the change as they are.
C16_InvalidSubmitAborts ==
    [][ (PageHandleSubmit /\ args.errors # {})
        => /\ result'.toast = "error"
           /\ result'.pc # "thrown"
           /\ result'.saved = << >>
           /\ args' = args ]_vars

\* C17: in the create flow (id is "new") handleSubmit calls upsert with the
\* full object and no id key, and a successful upsert navigates exactly once,
\* to the form route of the id the upsert returned; a successful submit of
\* the edit flow does not navigate.
C17_CreateSendsObjectAndNavigates ==
    [][ /\ (HandleSubmit /\ formView.id = NewId)
           => /\ submits'[Len(submits')].payload = formView.object
              /\ "id" \notin DOMAIN submits'[Len(submits')].payload
        /\ \A k \in DOMAIN submits :
             UpsertResolve(k)
             => navigations' =
                  IF submits[k].id = NewId
                  THEN Append(navigations, [ collection |-> submits[k].collection,
                                             id |-> submits'[k].result["id"].v[1] ])
                  ELSE navigations ]_vars

\* C18: in the edit flow (id is an existing identifier) handleSubmit calls
\* upsert with exactly {id, ...change}: the identifier and the fields edited
\* since the last load or save, and no unedited field of the loaded object.
C18_EditSendsChangeOnly ==
    [][ (HandleSubmit /\ formView.id # NewId)
        => submits'[Len(submits')].payload =
             Put(formView.change, "id", Str(<< formView.id >>)) ]_vars

\* C19: right after a successful save, and right after a reload caused by
\* a change of the route parameters has completed, change is empty and dirty
\* is false.
C19_SaveAndReloadClearChange ==
    [][ /\ \A k \in DOMAIN submits :
             UpsertResolve(k) => form'.change = EmptyObject /\ ~form'.dirty
        /\ \A g \in BagToSet(gets) :
             (GetResolve(g) /\ g.id \notin OpenedOn /\ g.id = formParams.id)
             => form'.change = EmptyObject /\ ~form'.dirty ]_vars

\* C20: in every reachable state of the form presenter dirty is true
\* exactly when change is non-empty.
C20_DirtyIffChange == form.dirty <=> (form.change # EmptyObject)

\* C21: every handleSubmit that set submitting to true sets it back to
\* false in the step in which its upsert call settles, on success and on
\* failure alike, and submitting stays false while no upsert is in flight.
C21_SubmittingCleared ==
    [][ /\ \A k \in DOMAIN submits :
             (submits[k].pc = "upsert" /\ submits'[k].pc # "upsert")
             => ~form'.submitting
        /\ (UpsertsInFlight' = {} /\ UpsertsInFlight = {} /\ ~form.submitting)
             => ~form'.submitting ]_vars

C21_Witness ==
    /\ \E k \in DOMAIN submits : submits[k].pc = "done" /\ submits[k].result # EmptyObject
    /\ \E k \in DOMAIN submits : submits[k].pc = "error"
    /\ ~form.submitting

\* C22: after handleFieldChange(f, v), object[f] = v and change[f] = v, and
\* every other field of object and of change has the value it had before
\* the call.
C22_FieldChangeSetsOneField ==
    [][ \A in \in FieldInputs :
          HandleFieldChange(in[1], in[2])
          => /\ form'.object[in[1]] = in[2]
             /\ form'.change[in[1]] = in[2]
             /\ \A k \in DOMAIN form.object \ { in[1] } :
                   k \in DOMAIN form'.object /\ form'.object[k] = form.object[k]
             /\ \A k \in DOMAIN form.change \ { in[1] } :
                   k \in DOMAIN form'.change /\ form'.change[k] = form.change[k] ]_vars

\* C23: after handleFieldChange, dirty is true if and only if the updated
\* object differs from the original snapshot of the last load; setting a
\* field back to its loaded value makes dirty false again.  Stated for a
\* form that shows the stored object of its route and has not saved yet, so
\* that the snapshot of the last load is the stored object.
C23_DirtyIffDiffersFromOriginal ==
    [][ \A in \in FieldInputs :
          ( /\ HandleFieldChange(in[1], in[2])
            /\ submits = << >>
            /\ formView.id \in StoredIds
            /\ formView.id = formParams.id
            /\ "id" \in DOMAIN formView.object
            /\ formView.object.id = Str(<< formView.id >>) )
          => (form'.dirty <=> form'.object # store[formView.id]) ]_vars

\* C24: handleCancel navigates to the collection list at most once per call;
\* when dirty is false it navigates without opening a dialog; when dirty is
\* true it opens the confirm dialog first and navigates only if the dialog
\* resolves true; on false it does not navigate and leaves object, change
\* and dirty unchanged.
C24_CancelAsksWhenDirty ==
    [][ /\ HandleCancel
          => IF form.dirty
             THEN /\ navigations' = navigations
                  /\ Len(dialogs') = Len(dialogs) + 1
                  /\ dialogs'[Len(dialogs')].open
             ELSE /\ navigations' = Append(navigations, ListPath(formParams.collection))
                  /\ dialogs' = dialogs
        /\ \A k \in DOMAIN dialogs :
             (dialogs[k].owner = "handleCancel" /\ dialogs'[k] # dialogs[k])
             => /\ Len(navigations') <= Len(navigations) + 1
                /\ navigations' # navigations
                     <=> (dialogs[k].promise = "pending" /\ dialogs'[k].promise = "true")
                /\ form' = form ]_vars

C25_NewMakesNoGetCall ==
    [][ /\ (PageLoadFormData /\ args.id = NewId)
          => /\ result'.gets = << >>
             /\ result'.object = EmptyObject
             /\ result'.load = "done"
        /\ (PageLoadFormData /\ args.id \notin { NoId, NewId })
          => result'.gets = << [ collection |-> "A", id |-> args.id ] >>
        /\ PageLoadResolve => result'.object = StoredObject(args.id) ]_vars

\* C26: validateForm reports errors only for fields the schema declares,
\* isValid is true exactly when errors is empty, with no matching schema or
\* a schema declaring no fields the result is {isValid: true, errors: {}},
\* and validateForm changes no presenter state.
C26_ErrorsOnlyForDeclaredFields ==
    [][ ApplyValidateForm
        => /\ DOMAIN result'.errors \subseteq DOMAIN args.schema.fields
           /\ result'.isValid <=> result'.errors = EmptyObject
           /\ (~args.schema.found \/ args.schema.fields = EmptyObject)
                => (result'.isValid /\ result'.errors = EmptyObject)
           /\ UNCHANGED <<args, formVars, listVars>> ]_vars

C26_Witness ==
    /\ result.done
    /\ "isValid" \in DOMAIN result
    /\ ~result.isValid
    /\ DOMAIN args.object \ DOMAIN args.schema.fields # {}
    /\ \E k \in DOMAIN args.object \ DOMAIN args.schema.fields : ~Truthy(args.object[k])

\* C27: the required rule yields an error for a declared field f if and
\* only if f is declared required and object[f] is absent, null or the
\* empty string; a required field holding a present value, the number 0 and
\* the boolean false included, gets no required-field error.
C27_RequiredOnlyWhenEmpty ==
    (result.done /\ "isValid" \in DOMAIN result)
    => \A f \in DOMAIN args.schema.fields :
         LET empty == \/ f \notin DOMAIN args.object
                      \/ args.object[f].t = "Null"
                      \/ args.object[f] = Str(<< >>)
         IN /\ (args.schema.fields[f].required /\ empty) => f \in DOMAIN result.errors
            /\ (f \in DOMAIN result.errors /\ result.errors[f] = "required")
                 => (args.schema.fields[f].required /\ empty)

C30_OneTimerFindInFlight ==
    InFlight({ ld \in BagToSet(loads) : ld.origin = "timer" /\ ld.pc = "find" }) <= 1

\* C31: every failure thrown by a use case is caught in the presenter
\* operation that awaited it and surfaced through showError, whatever the
\* thrown value (error object, string, null, undefined): no loadData
\* invocation finishes with a rejection.
C31_NoLoadRejects ==
    \A ld \in BagToSet(loads) : ld.pc # "rejected"

\* C32 as stated: when the find of a loadData succeeds and its count then
\* fails, objects is updated from the find result (replaced on page 1,
\* appended otherwise), count keeps its value and loading is cleared.
C32_CountFailureKeepsFound ==
    [][ \A ld \in BagToSet(loads) :
          CountReject(ld)
          => /\ state'.objects = IF ld.cur = 1 THEN ld.found ELSE state.objects \o ld.found
             /\ state'.count = state.count
             /\ ~state'.loading ]_vars

\* C32 amended: when the find of a loadData succeeds and its count then
\* fails, the find result is dropped: objects, count and every other field
\* keep their values, loading is cleared and the error is handed to showError.
C32_CountFailureDropsFound ==
    [][ \A ld \in BagToSet(loads) :
          CountReject(ld)
          => /\ state' = [ state EXCEPT !.loading = FALSE ]
             /\ \E failed \in BagToSet(loads') :
                   /\ failed.result = "countFailed"
                   /\ failed.pc \in { "error", "rejected" }
                   /\ failed.found = ld.found ]_vars

C32_Witness ==
    /\ \E ld \in BagToSet(loads) :
          ld.result = "countFailed" /\ ld.found # << >> /\ ld.pc = "error"
    /\ state.objects = << >>
    /\ ~state.loading

\* C33: when the find of a list load fails, a load started by loadMore
\* included, loading is cleared and objects, selected, count and current
\* have the values they had before the operation began; for loadMore that
\* is the page number it was called on.
C33_FailedLoadRestoresState ==
    [][ \A ld \in BagToSet(loads) :
          FindReject(ld)
          => /\ ~state'.loading
             /\ state'.objects = state.objects
             /\ state'.selected = state.selected
             /\ state'.count = state.count
             /\ ld.origin = "loadMore" => state'.current = ld.cur ]_vars

\* C34: a load that is in flight when the page unmounts or the collection
\* parameter changes never writes its result into the state afterwards:
\* the completion of a load issued for another collection than the one of
\* the route, or on an unmounted page, leaves the state as it is.
C34_StaleLoadWritesNothing ==
    [][ \A ld \in BagToSet(loads) :
          (CountResolve(ld) /\ (~alive \/ ld.coll # params.collection))
          => state' = state ]_vars

\* C35: every query sent to the find use case has limit > 0 and
\* skip = (current - 1) * limit >= 0 for the page number in force for that
\* load; the load started by loadMore uses the page number after the
\* increment, so it asks for the next page.
C35_LoadMoreAsksNextPage ==
    [][ /\ \A ld \in BagToSet(loads') :
             CopiesIn(ld, loads') > CopiesIn(ld, loads)
             => /\ ld.query.limit > 0
                /\ ld.query.skip >= 0
        /\ LoadMore
           => \E ld \in BagToSet(loads') :
                 /\ ld.origin = "loadMore"
                 /\ CopiesIn(ld, loads') > CopiesIn(ld, loads)
                 /\ ld.query.skip = (state'.current - 1) * ld.query.limit ]_vars

\* C36: with a server whose data does not change (no delete has been
\* started) and whose calls have all succeeded, objects.length <= count in
\* every state in which no load is in flight.
C36_ObjectsWithinCount ==
    (dels = << >> /\ fails = 0 /\ mounted /\ OutstandingLoads = 0)
    => Len(state.objects) <= state.count

\* C37: after the list presenter has mounted, with use cases that succeed
\* and no user input, the state changes that loadData itself makes do not
\* trigger another loadData: a later render of the page starts no load, so
\* only the find calls of the mount are ever issued.
C37_LoadDoesNotRetrigger ==
    [][ (Render /\ mounted /\ calls = 0 /\ fails = 0) => loads' = loads ]_vars

\* C38: two handleFieldChange calls on different fields made back to back,
\* before any re-render, both take effect: after the second call object
\* and change still hold the value the first call gave its field.
C38_NoLostFieldUpdate ==
    [][ \A in \in FieldInputs :
          HandleFieldChange(in[1], in[2])
          => \A f \in DOMAIN form.change \ { in[1] } :
                (f \notin DOMAIN formView.change \/ formView.change[f] # form.change[f])
                => /\ f \in DOMAIN form'.change
                   /\ form'.change[f] = form.change[f]
                   /\ f \in DOMAIN form'.object
                   /\ form'.object[f] = form.change[f] ]_vars

\* C39: if the route id changes from A to B while the get call for A is
\* pending, then after both get calls have resolved, in either order,
\* object is the record of B: once the page shows the record of the current
\* id, the get call of a previous id that resolves late does not replace it.
C39_LateGetKeepsCurrentRecord ==
    [][ \A g \in BagToSet(gets) :
          ( /\ GetResolve(g)
            /\ g.id # formParams.id
            /\ formParams.id \in DOMAIN store
            /\ form.object = store[formParams.id] )
          => form'.object = store[formParams.id] ]_vars

\* C40: mounting the form presenter with an existing id, or changing the
\* id once, causes exactly one get call for that (collection, id) pair:
\* the first render for a route with a stored id starts one get call.
C40_OneGetPerRoute ==
    [][ (FormRender /\ formParams.id \in StoredIds /\ (~formMounted \/ formView.id # formParams.id))
        => /\ BagCardinality(gets') = BagCardinality(gets) + 1
           /\ \E g \in BagToSet(gets') :
                 g.id = formParams.id /\ g.collection = formParams.collection ]_vars
====
